---------------------------- MODULE Spec2Model ----------------------------
(***************************************************************************)
(* A model of the Coordinator: the intent pipeline of executor.py          *)
(* (process_trade_intent and the functions it calls) and the scan cycle of *)
(* main_before_trade_intent.py (tick and the mock intelligence layer).     *)
(*                                                                         *)
(* Numbers.  Python floats are modelled by exact rationals <<n, d>> with   *)
(* d > 0, kept in lowest terms; rounding, infinities and NaN are outside   *)
(* the model.  uuid.uuid4() is modelled as a value no other call returns: *)
(* the k-th call made by the s-th request returns Uuid(s, k).              *)
(***************************************************************************)
EXTENDS Integers, Sequences, FiniteSets, TLC

VARIABLES
    settlement,   \* executor.py 34-36, 22-25: what _get_web3 finds in the environment
    testWallet,   \* executor.py 337-340: TEST_USER_WALLET or RELAYER_ADDRESS ("" when unset)
    tickEnv,      \* main 83-87: whether tick finds its project id and SERVICE_URL
    tenants,      \* committed rows of table tenants
    contracts,    \* committed rows of table contracts
    signals,      \* committed rows of table signals
    clock,        \* logical time of datetime.now(), read at each tenant insert
    run,          \* the calls of process_trade_intent in flight, one per slot
    submitted,    \* number of calls of process_trade_intent started so far
    results,      \* the records process_trade_intent has returned, in order
    ticks,        \* number of calls of tick so far
    lastTick,     \* the latest call of tick: its inputs, its answer, the tasks it created
    oracleCall,   \* the last call of fetch_pyth_price made on its own
    sizerCall,    \* the last call of compute_position_size made on its own
    rankCall      \* the last call of top_signals and of the selection made on its own

vars == <<settlement, testWallet, tickEnv, tenants, contracts, signals, clock,
          run, submitted, results, ticks, lastTick, oracleCall, sizerCall, rankCall>>

-----------------------------------------------------------------------------
(* Bounds of the model *)

\* calls of process_trade_intent started in one behaviour
MaxSubmissions == 2

\* calls of tick in one behaviour
MaxTicks == 1

\* equity takes the values 0, 5000, ..., MaxEquitySteps * 5000
MaxEquitySteps == 2

\* candidates in a score mapping handed to top_signals; k ranges over
\* -1 .. MaxCandidates + 1
MaxCandidates == 3

-----------------------------------------------------------------------------
(* Exact rationals *)

Abs(n) == IF n < 0 THEN -n ELSE n

RECURSIVE GCD(_, _)
GCD(a, b) == IF b = 0 THEN a ELSE GCD(b, a % b)

\* the rational n/d (d # 0) in lowest terms with a positive denominator
Rat(n, d) ==
    LET g == GCD(Abs(n), Abs(d))
        s == IF d < 0 THEN -1 ELSE 1
    IN  <<(s * n) \div g, (s * d) \div g>>

RInt(n) == <<n, 1>>
RMul(a, b) == Rat(a[1] * b[1], a[2] * b[2])
RDiv(a, b) == Rat(a[1] * b[2], a[2] * b[1])
RLeqZero(a) == a[1] <= 0
RLess(a, b) == a[1] * b[2] < b[1] * a[2]

RECURSIVE Pow10(_)
Pow10(k) == IF k = 0 THEN 1 ELSE 10 * Pow10(k - 1)

\* 10 ** expo as a rational, for an integer expo of either sign
TenTo(expo) == IF expo >= 0 THEN RInt(Pow10(expo)) ELSE Rat(1, Pow10(-expo))

-----------------------------------------------------------------------------
(* executor.py: configuration *)

MAX_LEVERAGE_FX     == 40
MAX_LEVERAGE_CRYPTO == 40
MAX_LEVERAGE_METAL  == 40
MAX_LEVERAGE_INDEX  == 20

\* the symbols that have a feed id in PYTH_FEEDS
PYTH_FEEDS ==
    { "EURUSD", "GBPUSD", "AUDUSD", "USDJPY", "USDCHF", "USDCAD",
      "EURJPY", "AUDJPY", "CADJPY", "GBPJPY", "DOLLARIDXUSD",
      "XAGUSD", "XAUUSD", "LIGHTCMDUSD", "BTCUSD", "ETHUSD" }

\* SYMBOL_UNIVERSE: PYTH_FEEDS and one symbol without a feed
SYMBOL_UNIVERSE == PYTH_FEEDS \cup { "USATECHIDXUSD" }

\* a faulty variant of asset_class that has lost the index class
asset_class_no_index(symbol) ==
    IF symbol \in { "BTCUSD", "ETHUSD" } THEN "CRYPTO"
    ELSE IF symbol \in { "XAUUSD", "XAGUSD", "LIGHTCMDUSD" } THEN "METAL"
    ELSE "FX"

asset_class(symbol) ==
    IF symbol \in { "BTCUSD", "ETHUSD" } THEN "CRYPTO"
    ELSE IF symbol \in { "XAUUSD", "XAGUSD", "LIGHTCMDUSD" } THEN "METAL"
    ELSE IF symbol = "DOLLARIDXUSD" THEN "INDEX"
    ELSE "FX"

max_leverage_for(symbol) ==
    LET cls == asset_class(symbol)
    IN  IF cls = "CRYPTO" THEN MAX_LEVERAGE_CRYPTO
        ELSE IF cls = "METAL" THEN MAX_LEVERAGE_METAL
        ELSE IF cls = "INDEX" THEN MAX_LEVERAGE_INDEX
        ELSE MAX_LEVERAGE_FX

\* uuid.uuid4(): the k-th value drawn by request number s
Uuid(s, k) == s * 8 + k

\* get_equity_for_user: the fixed test equity
TEST_EQUITY == 10000

-----------------------------------------------------------------------------
(* executor.py: fetch_pyth_price *)

\* dict.get(key, default); a key that is absent and a key mapped to None both
\* read as [some |-> FALSE] when no default is given
Some(v) == [some |-> TRUE, val |-> v]
None == [some |-> FALSE]
DictGet(d, key) == IF key \in DOMAIN d THEN Some(d[key]) ELSE None
DictGetOr(d, key, default) == IF key \in DOMAIN d THEN d[key] ELSE default

Raise(kind, step) == [ok |-> FALSE, err |-> kind, at |-> step]

\* What Hermes can answer: an HTTP error or timeout (raise_for_status or the
\* client raises), or a JSON list of items.
FeedResponses ==
    { [kind |-> "http_error"],
      [kind |-> "json", data |-> <<>>],
      [kind |-> "json", data |-> <<[id |-> "feed"]>>],
      [kind |-> "json", data |-> <<[price |-> [expo |-> -2]]>>],
      [kind |-> "json", data |-> <<[price |-> [price |-> 65000]]>>],
      [kind |-> "json", data |-> <<[price |-> [price |-> 6500000, expo |-> -2]]>>],
      [kind |-> "json", data |-> <<[price |-> [price |-> 0, expo |-> -8]]>>],
      [kind |-> "json", data |-> <<[price |-> [expo |-> -2]],
                                    [price |-> [price |-> 107, expo |-> -2]]>>] }

fetch_pyth_price(symbol, resp) ==
    IF symbol \notin PYTH_FEEDS THEN Raise("ValueError", "price")
    ELSE IF resp.kind = "http_error" THEN Raise("HTTPError", "price")
    ELSE IF Len(resp.data) = 0 THEN Raise("RuntimeError", "price")
    ELSE LET item == resp.data[1]
             price_obj == DictGetOr(item, "price", <<>>)
             px == DictGet(price_obj, "price")
             expo == DictGetOr(price_obj, "expo", 0)
         IN  IF ~px.some THEN Raise("RuntimeError", "price")
             ELSE [ok |-> TRUE, price |-> RMul(RInt(px.val), TenTo(expo))]

-----------------------------------------------------------------------------
(* executor.py: compute_position_size *)

\* a faulty variant of compute_position_size that only rejects negative values
compute_position_size_lax(equity, risk_pct, price, symbol) ==
    LET max_lev == max_leverage_for(symbol)
        risk_amount == RMul(equity, risk_pct)
        notional == RMul(risk_amount, RInt(max_lev))
    IN  IF notional[1] < 0 \/ price[1] < 0 THEN Raise("ValueError", "sizing")
        ELSE [ok |-> TRUE, equity |-> equity, risk_amount |-> risk_amount,
              max_leverage |-> max_lev, notional |-> notional,
              qty |-> IF price[1] = 0 THEN RInt(0) ELSE RDiv(notional, price),
              price |-> price]

\* a faulty variant of compute_position_size that leaves the leverage out of the quantity
compute_position_size_unlevered(equity, risk_pct, price, symbol) ==
    LET max_lev == max_leverage_for(symbol)
        risk_amount == RMul(equity, risk_pct)
        notional == RMul(risk_amount, RInt(max_lev))
    IN  IF RLeqZero(notional) \/ RLeqZero(price) THEN Raise("ValueError", "sizing")
        ELSE [ok |-> TRUE, equity |-> equity, risk_amount |-> risk_amount,
              max_leverage |-> max_lev, notional |-> notional,
              qty |-> RDiv(risk_amount, price), price |-> price]

compute_position_size(equity, risk_pct, price, symbol) ==
    LET max_lev == max_leverage_for(symbol)
        risk_amount == RMul(equity, risk_pct)
        notional == RMul(risk_amount, RInt(max_lev))
    IN  IF RLeqZero(notional) \/ RLeqZero(price) THEN Raise("ValueError", "sizing")
        ELSE [ok |-> TRUE, equity |-> equity, risk_amount |-> risk_amount,
              max_leverage |-> max_lev, notional |-> notional,
              qty |-> RDiv(notional, price), price |-> price]

-----------------------------------------------------------------------------
(* executor.py: _get_web3 and execute_onchain_trade *)

\* The environment _get_web3 and execute_onchain_trade read: RPC url, relayer
\* key and Ponte address all set and web3 installed ("configured"), the same
\* with a relayer key that Account.from_key rejects ("configured_bad_key"),
\* or something missing ("unconfigured").
SettlementEnvs == { "unconfigured", "configured", "configured_bad_key" }

get_web3(env) == IF env = "unconfigured" THEN "None" ELSE "w3"

STUB_TAG == "0xSTUB-"

\* a faulty variant of execute_onchain_trade that refuses to run without web3
execute_onchain_trade_strict(env, id) ==
    IF get_web3(env) = "None" THEN Raise("RuntimeError", "dispatch")
    ELSE IF env = "configured_bad_key" THEN Raise("ValueError", "dispatch")
    ELSE [ok |-> TRUE, tx_hash |-> [tag |-> STUB_TAG, hex |-> id]]

\* id is the value uuid.uuid4() returns inside the call
execute_onchain_trade(env, id) ==
    IF get_web3(env) = "None"
    THEN [ok |-> TRUE, tx_hash |-> [tag |-> STUB_TAG, hex |-> id]]
    ELSE IF env = "configured_bad_key" THEN Raise("ValueError", "dispatch")
    ELSE [ok |-> TRUE, tx_hash |-> [tag |-> STUB_TAG, hex |-> id]]

-----------------------------------------------------------------------------
(* executor.py: process_trade_intent, one step per statement that reads or   *)
(* writes the store or calls a collaborator                                  *)

\* the calls of process_trade_intent that can be in flight at once
Slots == { "a", "b" }

\* The intents submitted: symbol, risk_pct and direction are always present;
\* user_id "" stands for an absent or empty user_id.
TradeIntents ==
    { [symbol |-> "BTCUSD", risk_pct |-> Rat(8, 1000), direction |-> "LONG", user_id |-> ""],
      [symbol |-> "BTCUSD", risk_pct |-> Rat(8, 1000), direction |-> "SHORT", user_id |-> "TENANT_B"],
      [symbol |-> "USATECHIDXUSD", risk_pct |-> Rat(8, 1000), direction |-> "LONG", user_id |-> ""],
      [symbol |-> "DOLLARIDXUSD", risk_pct |-> Rat(0, 1), direction |-> "SHORT", user_id |-> ""] }

NoIntent == [symbol |-> "", risk_pct |-> Rat(0, 1), direction |-> "", user_id |-> ""]
NoSize == [ok |-> FALSE]

IdleRun ==
    [pc |-> "idle", sub |-> 0, intent |-> NoIntent, user_id |-> "",
     tenant_uuid |-> 0, pendT |-> {}, pendC |-> {}, signal_id |-> 0,
     price |-> Rat(0, 1), size_info |-> NoSize, err |-> "", at |-> "",
     calls |-> <<>>, hist |-> <<>>]

\* the exception leaves process_trade_intent: the locals are gone, an open
\* transaction is rolled back
Fail(rec, kind, step) ==
    [rec EXCEPT !.pc = "failed", !.err = kind, !.at = step,
                !.pendT = {}, !.pendC = {}, !.tenant_uuid = 0, !.signal_id = 0,
                !.price = Rat(0, 1), !.size_info = NoSize,
                !.hist = Append(@, "FAILED")]

\* lines 332-342: read the intent, resolve the wallet
Submit(r, intent) ==
    /\ run[r].pc \in { "idle", "done", "failed" }
    /\ submitted < MaxSubmissions
    /\ submitted' = submitted + 1
    /\ LET rec == [IdleRun EXCEPT !.sub = submitted + 1, !.intent = intent,
                       !.user_id = IF intent.user_id = "" THEN "TEST_USER_001"
                                   ELSE intent.user_id,
                       !.hist = <<"RECEIVED">>]
       IN  run' = [run EXCEPT ![r] =
                     IF testWallet = "" THEN Fail(rec, "RuntimeError", "config")
                     ELSE [rec EXCEPT !.pc = "select_tenant"]]
    /\ UNCHANGED <<settlement, testWallet, tickEnv, tenants, contracts, signals, clock,
                   results, ticks, lastTick, oracleCall, sizerCall, rankCall>>

\* lines 152-156: SELECT id FROM tenants WHERE email = :email, in a new
\* transaction that sees committed rows only
SelectTenant(r) ==
    /\ run[r].pc = "select_tenant"
    /\ LET rows == { t \in tenants : t.email = run[r].user_id }
       IN  run' = [run EXCEPT ![r] =
                     IF rows = {} THEN [@ EXCEPT !.pc = "insert_tenant"]
                     ELSE [@ EXCEPT !.pc = "select_contract",
                                    !.tenant_uuid = (CHOOSE t \in rows : TRUE).id]]
    /\ UNCHANGED <<settlement, testWallet, tickEnv, tenants, contracts, signals, clock,
                   submitted, results, ticks, lastTick, oracleCall, sizerCall, rankCall>>

\* lines 158-171: INSERT INTO tenants.  email is unique (main 38): the insert
\* waits while another open transaction holds a row with the same email, and
\* fails once such a row is committed.
InsertTenant(r) ==
    /\ run[r].pc = "insert_tenant"
    /\ \A o \in Slots \ {r} : \A t \in run[o].pendT : t.email # run[r].user_id
    /\ IF \E t \in tenants : t.email = run[r].user_id
       THEN /\ run' = [run EXCEPT ![r] = Fail(@, "IntegrityError", "bootstrap")]
            /\ UNCHANGED clock
       ELSE /\ run' = [run EXCEPT ![r] =
                         [@ EXCEPT !.pc = "select_contract", !.tenant_uuid = Uuid(run[r].sub, 1),
                                   !.pendT = { [id |-> Uuid(run[r].sub, 1), email |-> run[r].user_id,
                                                created_at |-> clock, by |-> run[r].sub] }]]
            /\ clock' = clock + 1
    /\ UNCHANGED <<settlement, testWallet, tickEnv, tenants, contracts, signals,
                   submitted, results, ticks, lastTick, oracleCall, sizerCall, rankCall>>

\* lines 176-182: SELECT id FROM contracts WHERE tenant_id AND arbitrum_address;
\* scalar_one_or_none raises when more than one row matches
SelectContract(r) ==
    /\ run[r].pc = "select_contract"
    /\ LET rows == { c \in contracts \cup run[r].pendC :
                        c.tenant_id = run[r].tenant_uuid /\ c.addr = testWallet }
       IN  run' = [run EXCEPT ![r] =
                     IF rows = {} THEN [@ EXCEPT !.pc = "insert_contract"]
                     ELSE IF Cardinality(rows) = 1 THEN [@ EXCEPT !.pc = "commit_user"]
                     ELSE Fail(@, "MultipleResultsFound", "bootstrap")]
    /\ UNCHANGED <<settlement, testWallet, tickEnv, tenants, contracts, signals, clock,
                   submitted, results, ticks, lastTick, oracleCall, sizerCall, rankCall>>

\* lines 184-198: INSERT INTO contracts
InsertContract(r) ==
    /\ run[r].pc = "insert_contract"
    /\ run' = [run EXCEPT ![r] =
                 [@ EXCEPT !.pc = "commit_user",
                           !.pendC = { [id |-> Uuid(run[r].sub, 2), tenant_id |-> run[r].tenant_uuid,
                                        addr |-> testWallet, by |-> run[r].sub] }]]
    /\ UNCHANGED <<settlement, testWallet, tickEnv, tenants, contracts, signals, clock,
                   submitted, results, ticks, lastTick, oracleCall, sizerCall, rankCall>>

\* line 152: the with block of ensure_test_user ends, the transaction commits
CommitUser(r) ==
    /\ run[r].pc = "commit_user"
    /\ tenants' = tenants \cup run[r].pendT
    /\ contracts' = contracts \cup run[r].pendC
    /\ run' = [run EXCEPT ![r] = [@ EXCEPT !.pc = "save_signal", !.pendT = {}, !.pendC = {}]]
    /\ UNCHANGED <<settlement, testWallet, tickEnv, signals, clock, submitted,
                   results, ticks, lastTick, oracleCall, sizerCall, rankCall>>

\* line 347, get_or_create_signal: one INSERT INTO signals in its own transaction
SaveSignal(r) ==
    /\ run[r].pc = "save_signal"
    /\ signals' = signals \cup { [id |-> Uuid(run[r].sub, 3), symbol |-> run[r].intent.symbol,
                                  by |-> run[r].sub] }
    /\ run' = [run EXCEPT ![r] = [@ EXCEPT !.pc = "fetch_price", !.signal_id = Uuid(run[r].sub, 3)]]
    /\ UNCHANGED <<settlement, testWallet, tickEnv, tenants, contracts, clock, submitted,
                   results, ticks, lastTick, oracleCall, sizerCall, rankCall>>

\* a faulty variant of FetchPrice that logs a failed price resolution and goes on
FetchPriceSwallow(r, resp) ==
    /\ run[r].pc = "fetch_price"
    /\ LET res == fetch_pyth_price(run[r].intent.symbol, resp)
       IN  run' = [run EXCEPT ![r] =
                     [@ EXCEPT !.pc = "size", !.calls = Append(@, "price"),
                               !.price = IF res.ok THEN res.price ELSE Rat(1, 1),
                               !.err = IF res.ok THEN "" ELSE res.err,
                               !.at = IF res.ok THEN "" ELSE "price",
                               !.hist = Append(@, IF res.ok THEN "PRICED" ELSE "FAILED")]]
    /\ UNCHANGED <<settlement, testWallet, tickEnv, tenants, contracts, signals, clock,
                   submitted, results, ticks, lastTick, oracleCall, sizerCall, rankCall>>

\* lines 350-351: equity, then await fetch_pyth_price(symbol); resp is what
\* Hermes answers
FetchPrice(r, resp) ==
    /\ run[r].pc = "fetch_price"
    /\ LET res == fetch_pyth_price(run[r].intent.symbol, resp)
           rec == [run[r] EXCEPT !.calls = Append(@, "price")]
       IN  run' = [run EXCEPT ![r] =
                     IF res.ok
                     THEN [rec EXCEPT !.pc = "size", !.price = res.price,
                                      !.hist = Append(@, "PRICED")]
                     ELSE Fail(rec, res.err, "price")]
    /\ UNCHANGED <<settlement, testWallet, tickEnv, tenants, contracts, signals, clock,
                   submitted, results, ticks, lastTick, oracleCall, sizerCall, rankCall>>

\* line 354: compute_position_size(equity, risk_pct, price, symbol)
ComputeSize(r) ==
    /\ run[r].pc = "size"
    /\ LET res == compute_position_size(RInt(TEST_EQUITY), run[r].intent.risk_pct,
                                        run[r].price, run[r].intent.symbol)
           rec == [run[r] EXCEPT !.calls = Append(@, "sizing")]
       IN  run' = [run EXCEPT ![r] =
                     IF res.ok
                     THEN [rec EXCEPT !.pc = "dispatch", !.size_info = res,
                                      !.hist = Append(@, "SIZED")]
                     ELSE Fail(rec, res.err, "sizing")]
    /\ UNCHANGED <<settlement, testWallet, tickEnv, tenants, contracts, signals, clock,
                   submitted, results, ticks, lastTick, oracleCall, sizerCall, rankCall>>

\* a faulty variant of NewIntentId that derives the id from the intent's content
NewIntentIdByContent(rec, n) == IF rec.intent.direction = "LONG" THEN -1 ELSE -2

\* line 360: intent_id = str(uuid.uuid4()), n being the value uuid4 returns
NewIntentId(rec, n) == n

\* lines 357-375: execute_onchain_trade, a new intent_id, the returned record
Dispatch(r) ==
    /\ run[r].pc = "dispatch"
    /\ LET res == execute_onchain_trade(settlement, Uuid(run[r].sub, 4))
           rec == [run[r] EXCEPT !.calls = Append(@, "dispatch")]
       IN  IF res.ok
           THEN /\ results' = Append(results,
                      [intent_id |-> NewIntentId(rec, Uuid(run[r].sub, 5)), status |-> "RECEIVED",
                       symbol |-> rec.intent.symbol, user_id |-> rec.user_id,
                       risk_pct |-> rec.intent.risk_pct,
                       equity |-> rec.size_info.equity, price |-> rec.size_info.price,
                       size |-> rec.size_info, tx_hash |-> res.tx_hash,
                       signal_id |-> rec.signal_id, intent |-> rec.intent,
                       sub |-> rec.sub])
                /\ run' = [run EXCEPT ![r] =
                             [rec EXCEPT !.pc = "done", !.hist = Append(@, "DISPATCHED"),
                                         !.tenant_uuid = 0, !.signal_id = 0,
                                         !.price = Rat(0, 1), !.size_info = NoSize]]
           ELSE /\ run' = [run EXCEPT ![r] = Fail(rec, res.err, "dispatch")]
                /\ UNCHANGED results
    /\ UNCHANGED <<settlement, testWallet, tickEnv, tenants, contracts, signals, clock,
                   submitted, ticks, lastTick, oracleCall, sizerCall, rankCall>>

-----------------------------------------------------------------------------
(* The intent pipeline under concurrent submissions *)

NoCall == [called |-> FALSE]

\* nothing stored, nothing in flight, nothing called
Quiet ==
    /\ tenants = {}
    /\ contracts = {}
    /\ signals = {}
    /\ clock = 1
    /\ run = [r \in Slots |-> IdleRun]
    /\ submitted = 0
    /\ results = <<>>
    /\ ticks = 0
    /\ lastTick = NoCall

Init ==
    /\ settlement \in SettlementEnvs
    /\ testWallet \in { "", "0xWALLET" }
    /\ tickEnv = "ok"
    /\ Quiet
    /\ oracleCall = NoCall
    /\ sizerCall = NoCall
    /\ rankCall = NoCall

Next ==
    \/ \E r \in Slots, intent \in TradeIntents : Submit(r, intent)
    \/ \E r \in Slots : SelectTenant(r)
    \/ \E r \in Slots : InsertTenant(r)
    \/ \E r \in Slots : SelectContract(r)
    \/ \E r \in Slots : InsertContract(r)
    \/ \E r \in Slots : CommitUser(r)
    \/ \E r \in Slots : SaveSignal(r)
    \/ \E r \in Slots, resp \in FeedResponses : FetchPrice(r, resp)
    \/ \E r \in Slots : ComputeSize(r)
    \/ \E r \in Slots : Dispatch(r)

Spec == Init /\ [][Next]_vars

-----------------------------------------------------------------------------
(* main_before_trade_intent.py: the mock intelligence layer and tick *)

\* Scores are kept in units of 1/7000: Scaled(n, d) is the decimal n/d.
Scaled(n, d) == (n * 7000) \div d

Min(a, b) == IF a <= b THEN a ELSE b

SYMBOLS ==
    << "EURUSD", "GBPUSD", "USDJPY", "USDCHF", "USDCAD",
       "AUDUSD", "NZDUSD", "XAUUSD", "XAGUSD", "WTI",
       "DAX", "SPX", "NDX", "BTCUSD", "ETHUSD",
       "SOLUSD", "ADAUSD", "LINKUSD", "AVAXUSD", "DOGEUSD" >>

\* symbols[:5]
mock_radar(symbols) == SubSeq(symbols, 1, Min(5, Len(symbols)))

\* The source's table of mock prices, in hundredths; a symbol outside the
\* table reads 1.0.
mock_pyth_prices(symbols) ==
    LET base == [EURUSD |-> 107, GBPUSD |-> 125, USDJPY |-> 15000,
                 XAUUSD |-> 199500, BTCUSD |-> 6500000]
    IN  [i \in DOMAIN symbols |->
            <<symbols[i], DictGetOr(base, symbols[i], 100)>>]

\* prices: a sequence of <<symbol, price in hundredths>>, as the dict's items.
\* score = (price % 7.0) / 7.0; p = min(0.99, 0.50 + score * 0.40);
\* e = min(0.99, 0.60 + score * 0.30); r = v = 0.9.  The result keeps the
\* dict's insertion order.
mock_coscienza_score(symbols, prices) ==
    [i \in DOMAIN symbols |->
        LET hit == { j \in DOMAIN prices : prices[j][1] = symbols[i] }
            cents == IF hit = {} THEN 100 ELSE prices[CHOOSE j \in hit : TRUE][2]
            score700 == cents % 700
        IN  <<symbols[i],
              [p |-> Min(Scaled(99, 100), Scaled(1, 2) + 4 * score700),
               e |-> Min(Scaled(99, 100), Scaled(6, 10) + 3 * score700),
               r |-> Scaled(9, 10), v |-> Scaled(9, 10)]>>]

\* a faulty variant of risk_manager that looks at p alone
risk_manager_p_only(signal) == signal.p >= Scaled(6, 10)

\* p * e >= 0.6
risk_manager(signal) == signal.p * signal.e >= Scaled(6, 10) * Scaled(1, 1)

RemoveAt(s, i) == SubSeq(s, 1, i - 1) \o SubSeq(s, i + 1, Len(s))

\* sorted(items, key = p * e, reverse = True): descending and stable, so of
\* equal keys the earlier item comes first
RECURSIVE SortedDesc(_)
SortedDesc(items) ==
    IF Len(items) = 0 THEN <<>>
    ELSE LET key(i) == items[i][2].p * items[i][2].e
             m == CHOOSE i \in DOMAIN items :
                     /\ \A j \in DOMAIN items : key(j) <= key(i)
                     /\ \A j \in 1 .. i - 1 : key(j) < key(i)
         IN  <<items[m]>> \o SortedDesc(RemoveAt(items, m))

\* s[:k]: the first k items, and for a negative k all but the last -k
SliceTo(s, k) ==
    IF k >= 0 THEN SubSeq(s, 1, Min(k, Len(s)))
    ELSE SubSeq(s, 1, Len(s) + k)

\* s[::-1]
Reversed(s) == [i \in DOMAIN s |-> s[Len(s) + 1 - i]]

\* a faulty variant of top_signals that sorts ascending and reverses the
\* list, which turns the order of equal keys around
top_signals_reversed(scores, k) ==
    LET ranked == SortedDesc(Reversed(scores))
    IN  SliceTo(ranked, k)

\* ranked[:k]
top_signals(scores, k) ==
    LET ranked == SortedDesc(scores)
    IN  SliceTo(ranked, k)

\* [(sym, s) for sym, s in items if risk_manager(s)]
RECURSIVE Accepted(_)
Accepted(items) ==
    IF Len(items) = 0 THEN <<>>
    ELSE IF risk_manager(items[1][2]) THEN <<items[1]>> \o Accepted(Tail(items))
    ELSE Accepted(Tail(items))

\* line 99: top_signals(scores, k), then the veto
Selection(scores, k) == Accepted(top_signals(scores, k))

\* line 99 calls it with k = 3
Picks(scores) == Selection(scores, 3)

\* ORDER BY created_at ASC, as a sequence
RECURSIVE ByCreatedAt(_)
ByCreatedAt(rows) ==
    IF rows = {} THEN <<>>
    ELSE LET first == CHOOSE t \in rows : \A o \in rows : t.created_at <= o.created_at
         IN  <<first>> \o ByCreatedAt(rows \ {first})

\* line 109: SELECT id, email FROM tenants ORDER BY created_at ASC LIMIT 3
SelectTenantRows(rows) ==
    LET all == ByCreatedAt(rows)
    IN  SubSeq(all, 1, Min(3, Len(all)))

\* line 107-108: the three demo tenants, created in list order
DemoEmails == << "demo1@cerbero.ai", "demo2@cerbero.ai", "demo3@cerbero.ai" >>

DemoTenants(n) ==
    { [id |-> -Uuid(n, i), email |-> DemoEmails[i], created_at |-> clock + i - 1, by |-> 0] :
        i \in 1 .. 3 }

TickEnvs == { "ok", "no_project", "no_service_url" }

\* The prices the scan reads for its symbols, in hundredths: tick calls
\* mock_pyth_prices, a stand-in for the live feed, so besides the mock's own
\* table the radar's symbols take prices on both sides of the veto: 1.00
\* (p * e below 0.6), 6.00 (above) and, for the first and the last symbol,
\* 5.00 (above, and below that of 6.00).
ScanPriceValues(i) == IF i \in { 1, 5 } THEN { 100, 500, 600 } ELSE { 100, 600 }

RECURSIVE PriceLists(_, _)
PriceLists(symbols, i) ==
    IF i > Len(symbols) THEN { <<>> }
    ELSE { <<<<symbols[i], c>>>> \o rest :
             c \in ScanPriceValues(i), rest \in PriceLists(symbols, i + 1) }

ScanPrices ==
    PriceLists(mock_radar(SYMBOLS), 1) \cup { mock_pyth_prices(mock_radar(SYMBOLS)) }

\* lines 90-99 for each price list: radar, scores, rank and veto
ScanPicks ==
    [prices \in ScanPrices |->
        Picks(mock_coscienza_score(mock_radar(SYMBOLS), prices))]

\* the model stops after MaxTicks calls of tick
TickEnabled == ticks < MaxTicks

TickResult(prices, status, units, rows, seen) ==
    [called |-> TRUE, prices |-> prices, status |-> status, units |-> units,
     rows |-> rows, tenantsSeen |-> seen]

\* tick, lines 79-148.  prices: what the price step returns; seedOk: whether
\* the store takes the demo tenants' INSERT, which gives no created_at (NOT
\* NULL, with a client-side default only, in the table of lines 35-41);
\* failAt: the create_task call that raises, 0 for none.
Tick(prices, seedOk, failAt) ==
    /\ TickEnabled
    /\ ticks' = ticks + 1
    /\ \E picks \in { ScanPicks[prices] } :
       LET seeding == tenants = {}
       IN  IF tickEnv = "no_project"
           THEN /\ lastTick' = TickResult(prices, "tick-error", <<>>, <<>>, {})
                /\ UNCHANGED <<tenants, clock>>
           ELSE IF Len(picks) = 0
           THEN /\ failAt = 0 /\ seedOk
                /\ lastTick' = TickResult(prices, "tick-queued(0)", <<>>, <<>>, {})
                /\ UNCHANGED <<tenants, clock>>
           ELSE IF seeding /\ ~seedOk
           THEN /\ failAt = 0
                /\ lastTick' = TickResult(prices, "tick-error", <<>>, <<>>, {})
                /\ UNCHANGED <<tenants, clock>>
           ELSE \E stored \in { IF seeding THEN DemoTenants(ticks + 1) ELSE tenants } :
                \E rows \in { SelectTenantRows(stored) } :
                LET best_sym == picks[1][1]
                    best == picks[1][2]
                    unit(i) == [tenant_id |-> rows[i].id, email |-> rows[i].email,
                                symbol |-> best_sym, p |-> best.p, e |-> best.e,
                                r |-> best.r, v |-> best.v]
                    sent == IF failAt = 0 THEN Len(rows) ELSE failAt - 1
                IN  /\ failAt <= Len(rows)
                    /\ ~seeding => seedOk
                    /\ tenants' = stored
                    /\ clock' = IF seeding THEN clock + 3 ELSE clock
                    /\ lastTick' =
                          IF tickEnv = "no_service_url"
                          THEN TickResult(prices, "tick-error", <<>>, rows, stored)
                          ELSE TickResult(prices,
                                          IF failAt = 0 THEN "tick-queued" ELSE "tick-error",
                                          [i \in 1 .. sent |-> unit(i)], rows, stored)
    /\ UNCHANGED <<settlement, testWallet, tickEnv, contracts, signals, run,
                   submitted, results, oracleCall, sizerCall, rankCall>>

\* ensure_test_user, lines 146-198, run from start to end with no other
\* transaction in between; a call that finds both rows changes nothing
EnsureTestUser(user_id) ==
    /\ submitted' = submitted + 1
    /\ LET found == { t \in tenants : t.email = user_id }
           tenant_uuid == IF found = {} THEN Uuid(submitted + 1, 1)
                          ELSE (CHOOSE t \in found : TRUE).id
           has == { c \in contracts : c.tenant_id = tenant_uuid /\ c.addr = testWallet }
       IN  /\ Cardinality(found) <= 1 /\ Cardinality(has) <= 1
           /\ found = {} \/ has = {}
           /\ tenants' = IF found = {}
                         THEN tenants \cup { [id |-> tenant_uuid, email |-> user_id,
                                              created_at |-> clock, by |-> submitted + 1] }
                         ELSE tenants
           /\ clock' = IF found = {} THEN clock + 1 ELSE clock
           /\ contracts' = IF has = {}
                           THEN contracts \cup { [id |-> Uuid(submitted + 1, 2),
                                                  tenant_id |-> tenant_uuid,
                                                  addr |-> testWallet,
                                                  by |-> submitted + 1] }
                           ELSE contracts
    /\ UNCHANGED <<settlement, testWallet, tickEnv, signals, run, results, ticks,
                   lastTick, oracleCall, sizerCall, rankCall>>

\* The tenant identities that arrive, in the order of their first arrival
\* (identities differ only in name, so one order of arrival stands for all).
ScanUsers == << "TEST_USER_001", "TENANT_B", "TENANT_C", "TENANT_D" >>

\* the identities that have arrived, and the next one
ArrivingUsers ==
    { ScanUsers[i] : i \in { j \in DOMAIN ScanUsers :
                               \A k \in 1 .. j - 1 :
                                   \E t \in tenants : t.email = ScanUsers[k] } }

ScanInit ==
    /\ settlement = "unconfigured"
    /\ testWallet = "0xWALLET"
    /\ tickEnv \in TickEnvs
    /\ Quiet
    /\ oracleCall = NoCall
    /\ sizerCall = NoCall
    /\ rankCall = NoCall

ScanNext ==
    \/ \E user_id \in ArrivingUsers : EnsureTestUser(user_id)
    \/ /\ TickEnabled
       /\ \E prices \in ScanPrices,
             seedOk \in IF tenants = {} THEN BOOLEAN ELSE { TRUE },
             failAt \in 0 .. 3 :
             Tick(prices, seedOk, failAt)

ScanSpec == ScanInit /\ [][ScanNext]_vars

-----------------------------------------------------------------------------
(* fetch_pyth_price and compute_position_size called on their own: the      *)
(* initial state holds the arguments, drawn from bounded sets, and the one  *)
(* action applies the function                                              *)

OracleInit ==
    /\ settlement = "unconfigured"
    /\ testWallet = "0xWALLET"
    /\ tickEnv = "ok"
    /\ Quiet
    /\ sizerCall = NoCall
    /\ rankCall = NoCall
    /\ \E symbol \in SYMBOL_UNIVERSE, resp \in FeedResponses :
          oracleCall = [called |-> FALSE, symbol |-> symbol, resp |-> resp]

OracleCall ==
    /\ ~oracleCall.called
    /\ oracleCall' = [called |-> TRUE, symbol |-> oracleCall.symbol,
                      resp |-> oracleCall.resp,
                      out |-> fetch_pyth_price(oracleCall.symbol, oracleCall.resp)]
    /\ UNCHANGED <<settlement, testWallet, tickEnv, tenants, contracts, signals, clock,
                   run, submitted, results, ticks, lastTick, sizerCall, rankCall>>

OracleSpec == OracleInit /\ [][OracleCall]_vars

\* equity, also negative
EquityValues == { RInt(k * 5000) : k \in -1 .. MaxEquitySteps }

\* risk_pct: negative, zero, inside (0, 1], and above 1
RiskValues == { Rat(-1, 100), Rat(0, 1), Rat(8, 1000), Rat(1, 2), Rat(1, 1), Rat(3, 2) }

PriceValues == { Rat(-1, 1), Rat(0, 1), Rat(1, 100), Rat(5, 4), RInt(65000) }

\* one symbol of each asset class, and one outside PYTH_FEEDS
SizerSymbols == SYMBOL_UNIVERSE \cup { "WTI" }

SizerInit ==
    /\ settlement = "unconfigured"
    /\ testWallet = "0xWALLET"
    /\ tickEnv = "ok"
    /\ Quiet
    /\ oracleCall = NoCall
    /\ rankCall = NoCall
    /\ \E equity \in EquityValues, risk_pct \in RiskValues, price \in PriceValues,
          symbol \in SizerSymbols :
          sizerCall = [called |-> FALSE, equity |-> equity, risk_pct |-> risk_pct,
                       price |-> price, symbol |-> symbol]

SizerCall ==
    /\ ~sizerCall.called
    /\ sizerCall' = [called |-> TRUE, equity |-> sizerCall.equity,
                     risk_pct |-> sizerCall.risk_pct, price |-> sizerCall.price,
                     symbol |-> sizerCall.symbol,
                     out |-> compute_position_size(sizerCall.equity, sizerCall.risk_pct,
                                                   sizerCall.price, sizerCall.symbol)]
    /\ UNCHANGED <<settlement, testWallet, tickEnv, tenants, contracts, signals, clock,
                   run, submitted, results, ticks, lastTick, oracleCall, rankCall>>

SizerSpec == SizerInit /\ [][SizerCall]_vars

\* top_signals and the selection of line 99 on their own.  The signals a
\* score mapping holds: p x e of 0.5 twice (p and e exchanged), 0.6 (the
\* threshold), and 0.9 twice.
RankSignals ==
    { [p |-> Scaled(pe[1], 10), e |-> Scaled(pe[2], 10),
       r |-> Scaled(9, 10), v |-> Scaled(9, 10)] :
      pe \in { <<5, 10>>, <<10, 5>>, <<6, 10>>, <<9, 10>>, <<10, 9>> } }

\* scores.items(): up to MaxCandidates candidates, each under its own symbol
ScoreMaps ==
    UNION { { [i \in 1 .. m |-> <<SYMBOLS[i], f[i]>>] : f \in [1 .. m -> RankSignals] } :
            m \in 0 .. MaxCandidates }

RankInit ==
    /\ settlement = "unconfigured"
    /\ testWallet = "0xWALLET"
    /\ tickEnv = "ok"
    /\ Quiet
    /\ oracleCall = NoCall
    /\ sizerCall = NoCall
    /\ \E scores \in ScoreMaps, k \in -1 .. MaxCandidates + 1 :
          rankCall = [called |-> FALSE, scores |-> scores, k |-> k]

RankCall ==
    /\ ~rankCall.called
    /\ rankCall' = [called |-> TRUE, scores |-> rankCall.scores, k |-> rankCall.k,
                    out |-> top_signals(rankCall.scores, rankCall.k),
                    picks |-> Selection(rankCall.scores, rankCall.k)]
    /\ UNCHANGED <<settlement, testWallet, tickEnv, tenants, contracts, signals, clock,
                   run, submitted, results, ticks, lastTick, oracleCall, sizerCall>>

RankSpec == RankInit /\ [][RankCall]_vars

-----------------------------------------------------------------------------
(* Claims about the intent pipeline, checked under Spec *)

Steps == <<"price", "sizing", "dispatch">>

IsPrefix(s, t) == Len(s) <= Len(t) /\ \A i \in DOMAIN s : s[i] = t[i]

Histories ==
    { <<"RECEIVED">>, <<"RECEIVED", "PRICED">>, <<"RECEIVED", "PRICED", "SIZED">>,
      <<"RECEIVED", "PRICED", "SIZED", "DISPATCHED">>,
      <<"RECEIVED", "FAILED">>, <<"RECEIVED", "PRICED", "FAILED">>,
      <<"RECEIVED", "PRICED", "SIZED", "FAILED">> }

InHist(r, st) == \E i \in DOMAIN run[r].hist : run[r].hist[i] = st

\* C1: in every run of process_trade_intent the steps invoked are a prefix of
\* price resolution, sizing, dispatch (in that order, each at most once); a
\* run whose price resolution failed has invoked nothing after it and is
\* never PRICED or SIZED; a run whose sizing failed has not invoked dispatch;
\* a failed run has stopped in FAILED.
C1_SequentialAbort ==
    \A r \in Slots :
        /\ IsPrefix(run[r].calls, Steps)
        /\ run[r].pc # "idle" => run[r].hist \in Histories
        /\ run[r].at # "" => run[r].pc = "failed"
        /\ run[r].at = "price" =>
              /\ run[r].calls = <<"price">>
              /\ ~InHist(r, "PRICED") /\ ~InHist(r, "SIZED")
        /\ run[r].at = "sizing" =>
              /\ run[r].calls = <<"price", "sizing">>
              /\ ~InHist(r, "SIZED")
        /\ run[r].at = "dispatch" => run[r].calls = Steps
        /\ run[r].pc = "failed" => run[r].hist[Len(run[r].hist)] = "FAILED"
        /\ run[r].pc = "done" => run[r].calls = Steps

\* a run whose feed answered without a price (RuntimeError) has failed at
\* price resolution, and another run has failed at sizing
C1_Witness ==
    \E r, o \in Slots :
        /\ run[r].pc = "failed" /\ run[r].at = "price" /\ run[r].err = "RuntimeError"
        /\ run[o].pc = "failed" /\ run[o].at = "sizing"

RowsBy(sub) ==
    { t \in tenants : t.by = sub } \cup { c \in contracts : c.by = sub }
        \cup { g \in signals : g.by = sub }

\* C2: a run that ended in FAILED has left no tenant, contract or signal row
\* of its own in the store.
C2_NoPartialExecution ==
    \A r \in Slots : run[r].pc = "failed" => RowsBy(run[r].sub) = {}

\* C3: with the settlement collaborator configured, no returned record
\* carries a handle with the placeholder tag of the unconfigured case.
C3_SentinelDistinguishable ==
    settlement # "unconfigured" =>
        \A i \in DOMAIN results : results[i].tx_hash.tag # STUB_TAG

\* C4: with the settlement collaborator unconfigured, a run whose price
\* resolution and sizing succeeded never fails: it is at dispatch or has
\* returned a record (DISPATCHED) whose handle carries the placeholder tag.
C4_DegradedDispatch ==
    settlement = "unconfigured" =>
        \A r \in Slots :
            InHist(r, "SIZED") =>
                /\ run[r].pc \in { "dispatch", "done" }
                /\ run[r].pc = "done" =>
                      /\ InHist(r, "DISPATCHED")
                      /\ \E i \in DOMAIN results :
                            /\ results[i].sub = run[r].sub
                            /\ results[i].tx_hash.tag = STUB_TAG

C4_Witness ==
    /\ settlement = "unconfigured"
    /\ \E r \in Slots : run[r].pc = "done" /\ InHist(r, "SIZED")

\* C9: the store never holds two tenant rows with one email nor two contract
\* rows for one (tenant, wallet); a run that has left ensure_test_user finds
\* exactly one of each for its identity; and no run fails inside
\* ensure_test_user.
C9_IdempotentBootstrap ==
    /\ \A t1, t2 \in tenants : t1.email = t2.email => t1 = t2
    /\ \A c1, c2 \in contracts :
          (c1.tenant_id = c2.tenant_id /\ c1.addr = c2.addr) => c1 = c2
    /\ \A r \in Slots :
          /\ run[r].at # "bootstrap"
          /\ run[r].pc \in { "save_signal", "fetch_price", "size", "dispatch", "done" } =>
                \E t \in tenants :
                    /\ t.email = run[r].user_id
                    /\ \E c \in contracts : c.tenant_id = t.id /\ c.addr = testWallet

\* C10: the returned records have pairwise distinct intent_id and pairwise
\* distinct execution handles, one record per submission, and every run that
\* has returned has its record, also when the same intent was submitted before.
C10_NoDeduplication ==
    /\ \A i, j \in DOMAIN results :
          i # j => /\ results[i].intent_id # results[j].intent_id
                   /\ results[i].tx_hash # results[j].tx_hash
                   /\ results[i].sub # results[j].sub
    /\ \A r \in Slots :
          run[r].pc = "done" => \E i \in DOMAIN results : results[i].sub = run[r].sub

\* the same TradeIntent value has been submitted twice and both runs returned
C10_Witness ==
    \E i, j \in DOMAIN results : i # j /\ results[i].intent = results[j].intent

-----------------------------------------------------------------------------
(* Claims about the position sizer, checked under SizerSpec *)

REq(a, b) == a[1] * b[2] = b[1] * a[2]
RPos(a) == a[1] > 0

\* the sizer's inputs are those of the contract: equity >= 0, 0 < risk <= 1, price > 0
SizerPre ==
    /\ sizerCall.called
    /\ sizerCall.equity[1] >= 0
    /\ RPos(sizerCall.risk_pct) /\ ~RLess(RInt(1), sizerCall.risk_pct)
    /\ RPos(sizerCall.price)

\* the sign of equity x riskFraction x maxLeverage(symbol), from the inputs
NotionalPositive ==
    sizerCall.equity[1] * sizerCall.risk_pct[1] * max_leverage_for(sizerCall.symbol) > 0

\* the returned SizingResult carries quantity x price = equity x riskFraction x
\* maxLeverage(symbol) (in integers, cross-multiplied), riskAmount = equity x
\* riskFraction and notional = riskAmount x maxLeverage
SizingExact ==
    LET o == sizerCall.out
        e == sizerCall.equity
        k == sizerCall.risk_pct
        p == sizerCall.price
        lev == max_leverage_for(sizerCall.symbol)
    IN  /\ o.ok
        /\ o.qty[1] * p[1] * e[2] * k[2] = e[1] * k[1] * lev * o.qty[2] * p[2]
        /\ o.risk_amount[1] * e[2] * k[2] = e[1] * k[1] * o.risk_amount[2]
        /\ o.notional[1] * o.risk_amount[2] = o.risk_amount[1] * lev * o.notional[2]

\* C5 as stated: for all equity >= 0, riskFraction in (0,1] and price > 0 the
\* sizer returns a SizingResult with quantity = equity x riskFraction x
\* maxLeverage / price, riskAmount = equity x riskFraction and notional =
\* riskAmount x maxLeverage.
C5_QuantityForAllInputs == SizerPre => SizingExact

\* C5 amended: for equity >= 0, riskFraction in (0,1] and price > 0, the sizer
\* returns that SizingResult when equity x riskFraction x maxLeverage > 0, and
\* fails with a ValueError when it is not (equity = 0).
C5_QuantityWhenNotionalPositive ==
    SizerPre =>
        IF NotionalPositive THEN SizingExact
        ELSE ~sizerCall.out.ok /\ sizerCall.out.err = "ValueError"

\* equity 10000, risk 0.008, BTCUSD at 65000: notional 3200, quantity 3200/65000
C5_Witness ==
    /\ SizerPre
    /\ sizerCall.equity = RInt(10000) /\ sizerCall.risk_pct = Rat(8, 1000)
    /\ sizerCall.price = RInt(65000) /\ sizerCall.symbol = "BTCUSD"
    /\ sizerCall.out.ok
    /\ sizerCall.out.risk_amount = RInt(80)
    /\ sizerCall.out.notional = RInt(3200)
    /\ sizerCall.out.qty = Rat(3200, 65000)

\* C6: for any inputs, the sizer fails (ValueError) when price <= 0 or
\* equity x risk x maxLeverage <= 0, and a returned SizingResult has
\* quantity > 0, notional > 0 and price > 0.
C6_InvalidSizing ==
    sizerCall.called =>
        /\ (~RPos(sizerCall.price) \/ ~NotionalPositive) =>
              /\ ~sizerCall.out.ok
              /\ sizerCall.out.err = "ValueError"
        /\ sizerCall.out.ok =>
              /\ RPos(sizerCall.out.qty)
              /\ RPos(sizerCall.out.notional)
              /\ RPos(sizerCall.out.price)
              /\ sizerCall.out.price = sizerCall.price

\* a call with a positive notional and price 0 has failed
C6_Witness ==
    /\ sizerCall.called
    /\ NotionalPositive
    /\ sizerCall.price = Rat(0, 1)
    /\ ~sizerCall.out.ok

-----------------------------------------------------------------------------
(* Claims about the price oracle, checked under OracleSpec *)

\* the first item of the answer carries a mantissa and an exponent
ItemComplete(resp) ==
    /\ resp.kind = "json"
    /\ Len(resp.data) > 0
    /\ "price" \in DOMAIN resp.data[1]
    /\ "price" \in DOMAIN resp.data[1].price
    /\ "expo" \in DOMAIN resp.data[1].price

\* C7: fetch_pyth_price fails with ValueError (UnknownSymbol) for a symbol
\* without a feed id; for a symbol with one it fails (FeedUnavailable) when
\* the answer is an error, empty, or its first item lacks the mantissa or the
\* exponent; and it returns mantissa x 10^exponent of the first item otherwise.
C7_OracleFailures ==
    oracleCall.called =>
        LET o == oracleCall.out
            resp == oracleCall.resp
        IN  IF oracleCall.symbol \notin PYTH_FEEDS
            THEN ~o.ok /\ o.err = "ValueError"
            ELSE IF ~ItemComplete(resp)
            THEN ~o.ok /\ o.err \in { "RuntimeError", "HTTPError" }
            ELSE /\ o.ok
                 /\ o.price = RMul(RInt(resp.data[1].price.price),
                                   TenTo(resp.data[1].price.expo))

-----------------------------------------------------------------------------
(* Claims about the scan cycle, checked under ScanSpec *)

\* the scores of the latest cycle, and the candidates that pass the veto
TickScores == mock_coscienza_score(mock_radar(SYMBOLS), lastTick.prices)
Survivors == { i \in DOMAIN TickScores : risk_manager(TickScores[i][2]) }
PE(i) == TickScores[i][2].p * TickScores[i][2].e

\* every task of the latest cycle carries one surviving candidate of the
\* greatest p x e
CarriesBest ==
    \E i \in Survivors :
        /\ \A j \in Survivors : PE(j) <= PE(i)
        /\ PE(i) >= Scaled(6, 10) * Scaled(1, 1)
        /\ \A n \in DOMAIN lastTick.units :
              /\ lastTick.units[n].symbol = TickScores[i][1]
              /\ lastTick.units[n].p = TickScores[i][2].p
              /\ lastTick.units[n].e = TickScores[i][2].e

TasksOf(tenant) ==
    { n \in DOMAIN lastTick.units : lastTick.units[n].tenant_id = tenant.id }

C8_OneUnitPerSelectedTenant ==
    (lastTick.called /\ lastTick.status # "tick-error" /\ Survivors # {}) =>
        /\ lastTick.status = "tick-queued"
        /\ CarriesBest
        /\ Len(lastTick.units) = Min(3, Cardinality(lastTick.tenantsSeen))
        /\ \A t \in lastTick.tenantsSeen :
              Cardinality(TasksOf(t)) =
                  IF Cardinality({ o \in lastTick.tenantsSeen :
                                      o.created_at < t.created_at }) < 3
                  THEN 1 ELSE 0

-----------------------------------------------------------------------------
(* Claims about the ranker and the selection, checked under RankSpec *)

Key(item) == item[2].p * item[2].e

\* the place of a candidate in the mapping handed in
PosIn(scores, item) == CHOOSE n \in DOMAIN scores : scores[n] = item

Sig(p10, e10) ==
    [p |-> Scaled(p10, 10), e |-> Scaled(e10, 10), r |-> Scaled(9, 10), v |-> Scaled(9, 10)]

\* [(A, 0.5), (B, 0.5), (C, 0.9)], A and B being different records
ExampleScores ==
    << <<SYMBOLS[1], Sig(5, 10)>>, <<SYMBOLS[2], Sig(10, 5)>>, <<SYMBOLS[3], Sig(9, 10)>> >>

\* C11: for every candidate mapping and every k >= 0, top_signals returns a
\* sequence of length min(k, number of candidates), made of candidates of the
\* mapping without repetition, sorted descending by p x e, candidates of equal
\* p x e in their input order (also against the candidates left out); k = 0
\* gives the empty sequence and [(A,0.5),(B,0.5),(C,0.9)] with k = 2 gives [C, A].
C11_RankSortedStable ==
    (rankCall.called /\ rankCall.k >= 0) =>
        LET scores == rankCall.scores
            out == rankCall.out
        IN  /\ Len(out) = Min(rankCall.k, Len(scores))
            /\ \A i \in DOMAIN out : \E n \in DOMAIN scores : scores[n] = out[i]
            /\ \A i, j \in DOMAIN out : i # j => out[i] # out[j]
            /\ \A i, j \in DOMAIN out : i < j =>
                  /\ Key(out[i]) >= Key(out[j])
                  /\ Key(out[i]) = Key(out[j]) => PosIn(scores, out[i]) < PosIn(scores, out[j])
            /\ \A n \in DOMAIN scores :
                  (\A i \in DOMAIN out : out[i] # scores[n]) =>
                      \A i \in DOMAIN out :
                          /\ Key(out[i]) >= Key(scores[n])
                          /\ Key(out[i]) = Key(scores[n]) => PosIn(scores, out[i]) < n
            /\ rankCall.k = 0 => out = <<>>
            /\ (scores = ExampleScores /\ rankCall.k = 2) =>
                  out = << ExampleScores[3], ExampleScores[1] >>

\* the example of the claim has been ranked: [C, A]
C11_Witness ==
    /\ rankCall.called
    /\ rankCall.scores = ExampleScores
    /\ rankCall.k = 2
    /\ rankCall.out = << ExampleScores[3], ExampleScores[1] >>

-----------------------------------------------------------------------------
(* Claims about the leverage table, checked under SizerSpec *)

AssetClasses == { "FX", "CRYPTO", "METAL", "INDEX" }
CryptoSet == { "BTCUSD", "ETHUSD" }
MetalSet == { "XAUUSD", "XAGUSD", "LIGHTCMDUSD" }
IndexSymbol == "DOLLARIDXUSD"

\* the configured ceiling of a class
Ceiling(cls) ==
    CASE cls = "CRYPTO" -> MAX_LEVERAGE_CRYPTO
      [] cls = "METAL" -> MAX_LEVERAGE_METAL
      [] cls = "INDEX" -> MAX_LEVERAGE_INDEX
      [] cls = "FX" -> MAX_LEVERAGE_FX

\* C12: _asset_class gives every symbol exactly one of the four classes, by
\* the rule crypto set -> CRYPTO, metal set -> METAL, the index symbol ->
\* INDEX, anything else -> FX; _max_leverage_for is the ceiling of that
\* class, and it is the leverage the sizer uses: a returned SizingResult
\* carries that ceiling and notional = riskAmount x ceiling.
C12_ClassCeiling ==
    LET symbol == sizerCall.symbol
        cls == asset_class(symbol)
    IN  /\ cls \in AssetClasses
        /\ symbol \in CryptoSet => cls = "CRYPTO"
        /\ (symbol \notin CryptoSet /\ symbol \in MetalSet) => cls = "METAL"
        /\ (symbol \notin CryptoSet \cup MetalSet /\ symbol = IndexSymbol) => cls = "INDEX"
        /\ symbol \notin CryptoSet \cup MetalSet \cup { IndexSymbol } => cls = "FX"
        /\ max_leverage_for(symbol) = Ceiling(cls)
        /\ (sizerCall.called /\ sizerCall.out.ok) =>
              /\ sizerCall.out.max_leverage = Ceiling(cls)
              /\ REq(sizerCall.out.notional,
                     RMul(sizerCall.out.risk_amount, RInt(Ceiling(cls))))

\* the sizer has sized a position in the index symbol at the index ceiling
C12_Witness ==
    /\ sizerCall.called
    /\ sizerCall.symbol = IndexSymbol
    /\ asset_class(sizerCall.symbol) = "INDEX"
    /\ sizerCall.out.ok
    /\ sizerCall.out.max_leverage = MAX_LEVERAGE_INDEX

\* the order the selection is specified in: drop the vetoed candidates, then
\* rank the survivors and truncate to the top k
SpecifiedSelection(scores, k) == top_signals(Accepted(scores), k)

\* [(A, 0.5), (B, 0.9), (C, 0.9)], B and C being different records
TiedSurvivors ==
    << <<SYMBOLS[1], Sig(5, 10)>>, <<SYMBOLS[2], Sig(9, 10)>>, <<SYMBOLS[3], Sig(10, 9)>> >>

SelectionOrderAnyK ==
    rankCall.called =>
        rankCall.picks = SpecifiedSelection(rankCall.scores, rankCall.k)

=============================================================================
